---- MODULE Spec2Model ----
(***************************************************************************)
(* Model of the zkVM guest src/methods/guest/src/bin/is_even.rs.           *)
(*                                                                         *)
(* main reads the host's input stream to its end, ABI-decodes the bytes as *)
(* one uint256 with validation, asserts that the value equals 12345 and    *)
(* commits the ABI encoding of the value to the journal.  A failed unwrap  *)
(* or assert panics, which ends the guest.                                 *)
(*                                                                         *)
(* Two independent executions (Runs) are modelled side by side, each with  *)
(* its own input stream, memory, journal and panic payload, so that        *)
(* executions on different inputs can be compared in one state.            *)
(*                                                                         *)
(* A U256 is modelled as its 32 base-256 limbs, least significant first    *)
(* (ruint keeps its limbs little-endian); the ABI word is big-endian.      *)
(***************************************************************************)
EXTENDS Integers, Sequences, FiniteSets, TLC

VARIABLES
    stdin,        \* stdin[r]: the bytes the host put on the input stream
    stdin_pos,    \* stdin_pos[r]: how many of them have been read
    input_bytes,  \* input_bytes[r]: the Vec<u8> of line 8
    input_hash,   \* input_hash[r]: the decoded U256, NoValue before line 12
    journal,      \* journal[r]: the slices committed so far, in order
    panic_msg,    \* panic_msg[r]: the panic payload, NoPanic when none
    pc            \* pc[r]: position of the execution in main

vars == <<stdin, stdin_pos, input_bytes, input_hash, journal, panic_msg, pc>>

----------------------------------------------------------------------------
(* Bounds and program constants *)

\* longest input stream the host supplies
MaxLen == 33

\* number of bytes of an ABI word, and of limbs of a U256
WordSize == 32

\* the literal of line 15
PredefinedLiteral == 12345

Runs == {1, 2}

NoValue == <<>>

NoPanic == <<>>

----------------------------------------------------------------------------
(* Byte-sequence helpers *)

Zeros(n) == [i \in 1..n |-> 0]

Reverse(s) == [i \in 1..Len(s) |-> s[Len(s) + 1 - i]]

Take(s, n) == SubSeq(s, 1, IF n < Len(s) THEN n ELSE Len(s))

RECURSIVE Limb(_, _)
\* limb i (1 = least significant) of the machine integer n
Limb(n, i) == IF i = 1 THEN n % 256 ELSE Limb(n \div 256, i - 1)

\* U256::from(n) for a machine integer n
U256_from(n) == [i \in 1..WordSize |-> Limb(n, i)]

\* U256::from_be_bytes on a 32-byte word
U256_from_be_bytes(word) == Reverse(word)

\* U256::to_be_bytes::<32>
U256_to_be_bytes(v) == Reverse(v)

----------------------------------------------------------------------------
(* The calls main makes *)

Ok(v) == [ok |-> TRUE, val |-> v, err |-> ""]

Err(e) == [ok |-> FALSE, val |-> NoValue, err |-> e]

\* input_hash.abi_encode(): the single big-endian word of the value
abi_encode(v) == U256_to_be_bytes(v)

\* <U256>::abi_decode(data, validate): the first word of data, an Overrun
\* when data is shorter than a word, and with validate a ReserMismatch when
\* the decoded value does not re-encode to exactly data
abi_decode(data, validate) ==
    IF Len(data) < WordSize
    THEN Err("Overrun")
    ELSE LET v == U256_from_be_bytes(SubSeq(data, 1, WordSize))
         IN  IF validate /\ abi_encode(v) # data
             THEN Err("ReserMismatch")
             ELSE Ok(v)

\* read with one fixed word-sized buffer instead of reading to the end
read_one_word(stream, pos) ==
    SubSeq(stream, pos + 1, IF Len(stream) < pos + WordSize
                            THEN Len(stream) ELSE pos + WordSize)

\* env::stdin().read_to_end(..): every byte of the stream from pos on
read_to_end(stream, pos) == SubSeq(stream, pos + 1, Len(stream))

\* decoding without validation: abi_decode(&input_bytes, false)
DecodeInputUnvalidated(data) == abi_decode(data, FALSE)

\* line 12: <U256>::abi_decode(&input_bytes, true)
DecodeInput(data) == abi_decode(data, TRUE)

\* a different literal on line 15
predefined_number_other == U256_from(PredefinedLiteral - 1)

\* line 15: U256::from(12345)
predefined_number == U256_from(PredefinedLiteral)

\* the assertion left out
AssertCondAlways(h) == TRUE

\* the assertion inverted
AssertCondNegated(h) == h # predefined_number

\* line 17: the condition of assert!(input_hash == predefined_number)
AssertCond(h) == h = predefined_number

\* the panic payload of a failed unwrap of line 12
UnwrapPanic(e) == <<"called Result::unwrap() on an Err value", e>>

\* the panic payload of the failed assert of line 17
AssertPanic == <<"assertion failed: input_hash == predefined_number">>

----------------------------------------------------------------------------
(* Inputs *)

\* the 32-byte word whose last two bytes are hi, lo and whose first is top
Word(top, hi, lo) ==
    [i \in 1..WordSize |->
        IF i = WordSize THEN lo
        ELSE IF i = WordSize - 1 THEN hi
        ELSE IF i = 1 THEN top ELSE 0]

\* 12345 = 48 * 256 + 57
Words ==
    { Word(top, t[1], t[2]) :
        top \in {0, 255},
        t \in {<<48, 57>>, <<48, 56>>, <<0, 0>>, <<0, 57>>, <<57, 48>>} }

\* buffers of a wrong length: the word of 12345 cut short or followed by
\* zero bytes, and 12345 right-aligned in a buffer of n bytes
Misfits ==
    { Take(Word(0, 48, 57) \o Zeros(MaxLen), n) :
        n \in (0..MaxLen) \ {WordSize} }
    \cup
    { Zeros(n - 2) \o <<48, 57>> : n \in (2..MaxLen) \ {WordSize} }

Inputs == Words \cup Misfits

----------------------------------------------------------------------------
(* The state machine *)

Init ==
    /\ stdin \in [Runs -> Inputs]
    /\ stdin_pos = [r \in Runs |-> 0]
    /\ input_bytes = [r \in Runs |-> <<>>]
    /\ input_hash = [r \in Runs |-> NoValue]
    /\ journal = [r \in Runs |-> <<>>]
    /\ panic_msg = [r \in Runs |-> NoPanic]
    /\ pc = [r \in Runs |-> "Start"]

\* lines 8-9: the Vec is filled with the whole stream
ReadInput(r) ==
    /\ pc[r] = "Start"
    /\ LET got == read_to_end(stdin[r], stdin_pos[r])
       IN  /\ input_bytes' = [input_bytes EXCEPT ![r] = @ \o got]
           /\ stdin_pos' = [stdin_pos EXCEPT ![r] = @ + Len(got)]
    /\ pc' = [pc EXCEPT ![r] = "Decoding"]
    /\ UNCHANGED <<stdin, input_hash, journal, panic_msg>>

\* line 12: decode and unwrap
Decode(r) ==
    /\ pc[r] = "Decoding"
    /\ LET res == DecodeInput(input_bytes[r])
       IN  IF res.ok
           THEN /\ input_hash' = [input_hash EXCEPT ![r] = res.val]
                /\ pc' = [pc EXCEPT ![r] = "Matching"]
                /\ UNCHANGED panic_msg
           ELSE /\ panic_msg' = [panic_msg EXCEPT ![r] = UnwrapPanic(res.err)]
                /\ pc' = [pc EXCEPT ![r] = "Abort"]
                /\ UNCHANGED input_hash
    /\ UNCHANGED <<stdin, stdin_pos, input_bytes, journal>>

\* a mismatch starts the routine over instead of panicking
EvaluateRetry(r) ==
    /\ pc[r] = "Matching"
    /\ pc' = [pc EXCEPT ![r] =
                 IF AssertCond(input_hash[r]) THEN "Committing" ELSE "Start"]
    /\ UNCHANGED <<stdin, stdin_pos, input_bytes, input_hash, journal, panic_msg>>

\* the commit of line 19 placed before the assertion of line 17
EvaluateCommitFirst(r) ==
    /\ pc[r] = "Matching"
    /\ journal' = [journal EXCEPT ![r] = Append(@, abi_encode(input_hash[r]))]
    /\ IF AssertCond(input_hash[r])
       THEN /\ pc' = [pc EXCEPT ![r] = "Committing"]
            /\ UNCHANGED panic_msg
       ELSE /\ panic_msg' = [panic_msg EXCEPT ![r] = AssertPanic]
            /\ pc' = [pc EXCEPT ![r] = "Abort"]
    /\ UNCHANGED <<stdin, stdin_pos, input_bytes, input_hash>>

\* lines 15-17: the assertion
Evaluate(r) ==
    /\ pc[r] = "Matching"
    /\ IF AssertCond(input_hash[r])
       THEN /\ pc' = [pc EXCEPT ![r] = "Committing"]
            /\ UNCHANGED panic_msg
       ELSE /\ panic_msg' = [panic_msg EXCEPT ![r] = AssertPanic]
            /\ pc' = [pc EXCEPT ![r] = "Abort"]
    /\ UNCHANGED <<stdin, stdin_pos, input_bytes, input_hash, journal>>

\* lines 19-20: env::commit_slice(input_hash.abi_encode().as_slice()), return
Commit(r) ==
    /\ pc[r] = "Committing"
    /\ journal' = [journal EXCEPT ![r] = Append(@, abi_encode(input_hash[r]))]
    /\ pc' = [pc EXCEPT ![r] = "Success"]
    /\ UNCHANGED <<stdin, stdin_pos, input_bytes, input_hash, panic_msg>>

Next ==
    \/ \E r \in Runs : ReadInput(r)
    \/ \E r \in Runs : Decode(r)
    \/ \E r \in Runs : Evaluate(r)
    \/ \E r \in Runs : Commit(r)

Spec == Init /\ [][Next]_vars

\* main is straight-line synchronous code: an execution that can take its
\* next step takes it
RunStep(r) == ReadInput(r) \/ Decode(r) \/ Evaluate(r) \/ Commit(r)

FairSpec == Spec /\ \A r \in Runs : WF_vars(RunStep(r))
----------------------------------------------------------------------------
(* Vocabulary of the properties, written out independently of the calls    *)
(* above                                                                   *)

\* the 32-byte big-endian ABI word of 12345 = 0x3039
EncodingOfConstant == [i \in 1..32 |-> IF i = 32 THEN 57 ELSE IF i = 31 THEN 48 ELSE 0]

\* the value 12345 as limbs
ConstantValue == [i \in 1..32 |-> IF i = 1 THEN 57 ELSE IF i = 2 THEN 48 ELSE 0]

Terminal == {"Success", "Abort"}

PastDecode == {"Matching", "Committing", "Success"}

\* an aborted execution whose decode failed / whose assertion failed
DecodeFault(r) == pc[r] = "Abort" /\ input_hash[r] = NoValue

PredicateFault(r) == pc[r] = "Abort" /\ input_hash[r] # NoValue

\* what the guest exposes of an execution: how it ended, the journal, and
\* the payload of the panic it raised
GuestExposes(r) == [outcome |-> pc[r], journal |-> journal[r], panic |-> panic_msg[r]]

\* the transitions of the state machine of the specification
Edges ==
    { <<"Start", "Decoding">>, <<"Decoding", "Matching">>, <<"Decoding", "Abort">>,
      <<"Matching", "Committing">>, <<"Matching", "Abort">>,
      <<"Committing", "Success">> }

----------------------------------------------------------------------------
(* C1: in every reachable state, a commitment that has been written is the *)
(* canonical encoding of 12345, and the decoded value it was made from     *)
(* equals 12345.                                                           *)
C1_CommitIsEncodingOfConstant ==
    \A r \in Runs :
        journal[r] # <<>> =>
            /\ \A i \in 1..Len(journal[r]) : journal[r][i] = EncodingOfConstant
            /\ input_hash[r] = ConstantValue

C1_Witness == \E r \in Runs : Len(journal[r]) >= 1

(* C2: an execution whose input is the valid encoding of 12345 never       *)
(* aborts, ends in Success, and its commitment decodes back to 12345 (it   *)
(* is the encoding of 12345).                                              *)
C2_ConstantInputSucceeds ==
    /\ [](\A r \in Runs :
            stdin[r] = EncodingOfConstant =>
                /\ pc[r] # "Abort"
                /\ pc[r] = "Success" =>
                      /\ journal[r] = <<EncodingOfConstant>>
                      /\ DecodeInput(journal[r][1]) = Ok(ConstantValue))
    /\ \A r \in Runs :
          (stdin[r] = EncodingOfConstant) ~> (pc[r] = "Success")

C2_Witness ==
    /\ stdin[1] = EncodingOfConstant
    /\ pc[1] = "Success"
    /\ journal[1] = <<EncodingOfConstant>>

(* C3: an execution whose input is a valid 32-byte encoding of a value     *)
(* other than 12345 never commits anything and ends in Abort.              *)
C3_OtherValueAborts ==
    /\ [](\A r \in Runs :
            (Len(stdin[r]) = 32 /\ stdin[r] # EncodingOfConstant) =>
                /\ journal[r] = <<>>
                /\ pc[r] \notin {"Committing", "Success"})
    /\ \A r \in Runs :
          (Len(stdin[r]) = 32 /\ stdin[r] # EncodingOfConstant)
              ~> (pc[r] = "Abort" /\ journal[r] = <<>>)

\* the encodings of 0 and of 12344 have both aborted after a good decode
C3_Witness ==
    /\ stdin[1] = [i \in 1..32 |-> 0]
    /\ stdin[2] = [i \in 1..32 |-> IF i = 32 THEN 56 ELSE IF i = 31 THEN 48 ELSE 0]
    /\ \A r \in Runs : pc[r] = "Abort" /\ input_hash[r] # NoValue /\ journal[r] = <<>>

(* C4: an execution whose input is not 32 bytes long aborts in the decode  *)
(* step: it never reaches the equality check, never holds a decoded value, *)
(* never commits, and ends in Abort with the decode's panic.               *)
C4_MalformedAbortsInDecode ==
    /\ [](\A r \in Runs :
            Len(stdin[r]) # 32 =>
                /\ pc[r] \notin PastDecode
                /\ input_hash[r] = NoValue
                /\ journal[r] = <<>>
                /\ pc[r] = "Abort" =>
                      panic_msg[r][1] = "called Result::unwrap() on an Err value")
    /\ \A r \in Runs : (Len(stdin[r]) # 32) ~> (pc[r] = "Abort")

\* an empty buffer and a 33-byte buffer have both aborted in the decode
C4_Witness ==
    /\ Len(stdin[1]) = 0 /\ DecodeFault(1)
    /\ Len(stdin[2]) = 33 /\ DecodeFault(2)

(* C5: the journal is written at most once, it holds one slice exactly     *)
(* when the execution is in Success, the one write is the step from        *)
(* Committing to Success, made after the equality held, of the full        *)
(* 32-byte word, and a successful execution leaves no panic payload.       *)
C5_SingleCommitOnSuccess ==
    /\ [](\A r \in Runs :
            /\ Len(journal[r]) <= 1
            /\ Len(journal[r]) = 1 <=> pc[r] = "Success"
            /\ pc[r] = "Success" => panic_msg[r] = NoPanic)
    /\ [][\A r \in Runs :
            journal'[r] # journal[r] =>
                /\ pc[r] = "Committing" /\ pc'[r] = "Success"
                /\ input_hash[r] = ConstantValue
                /\ Len(journal'[r]) = Len(journal[r]) + 1
                /\ Len(journal'[r][Len(journal'[r])]) = 32]_vars

C5_Witness ==
    /\ pc[1] = "Success" /\ Len(journal[1]) = 1
    /\ pc[2] = "Abort" /\ Len(journal[2]) = 0

(* C6: every execution eventually stays in Success or in Abort; Success    *)
(* means decoded, matched and committed, Abort means a failed decode or a  *)
(* mismatch; there is no other position than the six of the state machine  *)
(* and a terminal execution takes no further step.                         *)
C6_TwoTerminalOutcomes ==
    /\ <>[](\A r \in Runs : pc[r] \in Terminal)
    /\ [](\A r \in Runs :
            /\ pc[r] \in {"Start", "Decoding", "Matching", "Committing"} \cup Terminal
            /\ pc[r] = "Success" =>
                  /\ input_hash[r] = ConstantValue
                  /\ Len(journal[r]) = 1
                  /\ panic_msg[r] = NoPanic
            /\ pc[r] = "Abort" =>
                  /\ input_hash[r] # ConstantValue
                  /\ panic_msg[r] # NoPanic)
    /\ [][\A r \in Runs :
            pc[r] \in Terminal =>
                /\ pc'[r] = pc[r]
                /\ journal'[r] = journal[r]
                /\ panic_msg'[r] = panic_msg[r]]_vars

C6_Witness ==
    /\ pc[1] = "Abort" /\ PredicateFault(1)
    /\ pc[2] = "Success"

(* C7: a DecodeFault execution and a PredicateFault execution expose the   *)
(* same thing: the same abort outcome, the same empty journal, and nothing *)
(* else that tells which of the two faults occurred.                       *)
C7_FaultsIndistinguishable ==
    \A r1, r2 \in Runs :
        (DecodeFault(r1) /\ PredicateFault(r2)) => GuestExposes(r1) = GuestExposes(r2)

(* C9: every step of an execution follows an edge of Start -> Decoding ->  *)
(* {Abort | Matching} -> {Abort | Committing} -> Success, so no position   *)
(* is revisited and the terminal ones have no successor; past Start the    *)
(* whole input has been read, past Decoding the value is decoded, and past *)
(* Matching it has been found equal to 12345.                              *)
C9_StateMachineOrder ==
    /\ [][\A r \in Runs : pc'[r] # pc[r] => <<pc[r], pc'[r]>> \in Edges]_vars
    /\ [](\A r \in Runs :
            /\ pc[r] = "Start" => input_bytes[r] = <<>> /\ stdin_pos[r] = 0
            /\ pc[r] # "Start" =>
                  stdin_pos[r] = Len(stdin[r]) /\ input_bytes[r] = stdin[r]
            /\ pc[r] \in {"Start", "Decoding"} => input_hash[r] = NoValue
            /\ pc[r] \in PastDecode => Len(input_hash[r]) = 32
            /\ pc[r] \in {"Committing", "Success"} => input_hash[r] = ConstantValue
            /\ pc[r] # "Success" => journal[r] = <<>>)

C9_Witness ==
    /\ pc[1] = "Committing" /\ Len(input_bytes[1]) = 32
    /\ pc[2] = "Decoding" /\ Len(input_bytes[2]) = 33

(* C10: in Success the journal holds exactly the bytes of the input that   *)
(* was read, 32 of them.                                                   *)
C10_CommitEqualsInput ==
    \A r \in Runs :
        pc[r] = "Success" =>
            /\ journal[r] = <<stdin[r]>>
            /\ journal[r] = <<input_bytes[r]>>
            /\ Len(journal[r][1]) = 32

C10_Witness ==
    /\ pc[2] = "Success"
    /\ journal[2] = <<input_bytes[2]>>
    /\ Len(input_bytes[2]) = 32


====
